---- MODULE Spec2Model ----
(***************************************************************************)
(* lazy_transducer: a lazy, indexable, parallel-capable view over a        *)
(* sequence of records embedded in a source.                               *)
(*                                                                         *)
(* The repository holds the view twice: src/lib.rs (the older snapshot,    *)
(* with `transducer`, `empty` and the borrowing `Iter`) and                *)
(* src/lazy_transducer.rs (`pread`, and a cloning by-reference iterator).  *)
(* Both are modelled; where the code of the two is the same text, one      *)
(* operator models both.                                                   *)
(*                                                                         *)
(* usize is modelled as a word of WordBits bits.  A multiplication whose   *)
(* product does not fit panics in a build with overflow checks and wraps   *)
(* in one without: both outcomes are kept.                                 *)
(***************************************************************************)
EXTENDS Integers, Sequences, FiniteSets, Bags, TLC

VARIABLES
    lt,         \* the view: NoView, or a LazyTransducer {count, contents, transducer}
    it,         \* the sequential iterator: NoIter, or {kind, current, lt}
    seqOut,     \* what the sequential iterator has yielded so far (history)
    producers,  \* the rayon producers that exist: a set of {current, top}
    parOut,     \* what the producers have yielded so far: a bag of <<index, element>>
    result,     \* the outcome of the last call
    builder,    \* the Builder under construction: NoBuilder, or {input, count, transducer}
    prev        \* what the last sequential run that reached its end yielded (history)

vars == <<lt, it, seqOut, producers, parOut, result, builder, prev>>

---------------------------------------------------------------------------
(* Bounds of the model *)

WordBits == 5
\* the largest count handed to the parallel driver
MaxPar == 5

WordMod == 2 ^ WordBits
Usize == 0 .. (WordMod - 1)

---------------------------------------------------------------------------
(* Inputs *)

\* 4 big-endian 32-bit integers 4, 5, 1, 5 (spec.md, section 8)
Scenario == <<0, 0, 0, 4,  0, 0, 0, 5,  0, 0, 0, 1,  0, 0, 0, 5>>

Buffers == { <<>>, <<1, 2, 3>>, <<0, 2, 0, 0, 0, 3>>, Scenario }

\* A decoding context: the record width it determines, the byte order, and
\* whether the record's decoder validates the content (rejects an all-zero
\* record) or accepts every record of the right width.
Ctxs ==
    { [size |-> 4, endian |-> "BE", strict |-> FALSE],
      [size |-> 4, endian |-> "LE", strict |-> FALSE],
      [size |-> 2, endian |-> "BE", strict |-> FALSE],
      [size |-> 2, endian |-> "LE", strict |-> TRUE],
      [size |-> 1, endian |-> "LE", strict |-> TRUE],
      [size |-> 1, endian |-> "LE", strict |-> FALSE],
      [size |-> 0, endian |-> "LE", strict |-> FALSE] }

\* Ctx::default(): scroll's default byte order on a little-endian machine
DefaultCtxs == { c \in Ctxs : c.endian = "LE" }

---------------------------------------------------------------------------
(* Values *)

NoView == [tag |-> "NoView"]
NoIter == [tag |-> "NoIter"]
NoBuilder == [tag |-> "NoBuilder"]
NoRun == [tag |-> "NoRun"]
Run(seq) == [tag |-> "Run", out |-> seq]
None == [tag |-> "None"]
Some(v) == [tag |-> "Some", val |-> v]
Panic == [tag |-> "Panic"]
Ok(v) == [tag |-> "Ok", val |-> v]
Err(e) == [tag |-> "Err", err |-> e]

ElementOverflow(nelements, sizeof_element, src_size) ==
    [kind |-> "ElementOverflow", nelements |-> nelements,
     sizeof_element |-> sizeof_element, src_size |-> src_size]

LazyTransducer(count, contents, transducer) ==
    [tag |-> "LazyTransducer", count |-> count, contents |-> contents,
     transducer |-> transducer]

---------------------------------------------------------------------------
(* usize arithmetic *)

\* a * b on usize: the set of outcomes the build can produce
usize_mul(a, b) ==
    IF a * b < WordMod
    THEN { [ok |-> TRUE, val |-> a * b] }
    ELSE { [ok |-> FALSE, val |-> 0],
           [ok |-> TRUE, val |-> (a * b) % WordMod] }

---------------------------------------------------------------------------
(* The decoding capability (scroll), as the view uses it *)

size_with(ctx) == ctx.size

RECURSIVE from_be_bytes(_)
from_be_bytes(bytes) ==
    IF bytes = <<>> THEN 0
    ELSE from_be_bytes(SubSeq(bytes, 1, Len(bytes) - 1)) * 256 + bytes[Len(bytes)]

RECURSIVE from_le_bytes(_)
from_le_bytes(bytes) ==
    IF bytes = <<>> THEN 0
    ELSE bytes[1] + 256 * from_le_bytes(SubSeq(bytes, 2, Len(bytes)))

\* input.pread_with(offset, ctx): decode one record of size_with(ctx) bytes
\* at offset.  Fails when the bytes are not there, or when the record's own
\* decoder rejects them.  reads: the bytes of input it looked at.
pread_with(input, offset, ctx) ==
    IF offset + size_with(ctx) > Len(input)
    THEN [tag |-> "Err", err |-> "TooBig", reads |-> {}]
    ELSE LET bytes == SubSeq(input, offset + 1, offset + size_with(ctx))
             reads == (offset + 1) .. (offset + size_with(ctx))
         IN  IF ctx.strict /\ \A i \in 1 .. Len(bytes) : bytes[i] = 0
             THEN [tag |-> "Err", err |-> "BadInput", reads |-> reads]
             ELSE [tag |-> "Ok",
                   val |-> IF ctx.endian = "BE" THEN from_be_bytes(bytes)
                           ELSE from_le_bytes(bytes),
                   reads |-> reads]

---------------------------------------------------------------------------
(* The view *)

\* LazyTransducer::transducer (lib.rs): the extractor of the fixed-width
\* specialization.  An extractor call ends in an element or, when the
\* multiplication overflows or unwrap() meets a decode error, in a panic.
transducer(contents, idx) ==
    { IF ~m.ok
      THEN [panic |-> TRUE, val |-> 0, reads |-> {}]
      ELSE LET r == pread_with(contents.input, m.val, contents.ctx)
           IN  IF r.tag = "Ok"
               THEN [panic |-> FALSE, val |-> r.val, reads |-> r.reads]
               ELSE [panic |-> TRUE, val |-> 0, reads |-> r.reads]
      : m \in usize_mul(size_with(contents.ctx), idx) }

\* ScrollTransducer::pread (lazy_transducer.rs)
pread(contents, idx) ==
    { IF ~m.ok
      THEN [panic |-> TRUE, val |-> 0, reads |-> {}]
      ELSE LET offset == m.val
               r == pread_with(contents.input, offset, contents.ctx)
           IN  IF r.tag = "Ok"
               THEN [panic |-> FALSE, val |-> r.val, reads |-> r.reads]
               ELSE [panic |-> TRUE, val |-> 0, reads |-> r.reads]
      : m \in usize_mul(size_with(contents.ctx), idx) }

\* the extractor of tests/test.rs, basic_transducer: contents is the byte
\* slice alone, a record is a big-endian u32
basic_transducer_closure(input, idx) ==
    { IF ~m.ok
      THEN [panic |-> TRUE, val |-> 0, reads |-> {}]
      ELSE LET r == pread_with(input, m.val,
                               [size |-> 4, endian |-> "BE", strict |-> FALSE])
           IN  IF r.tag = "Ok"
               THEN [panic |-> FALSE, val |-> r.val, reads |-> r.reads]
               ELSE [panic |-> TRUE, val |-> 0, reads |-> r.reads]
      : m \in usize_mul(4, idx) }

\* the extractor of the first doc example of LazyTransducer::new,
\* |input, idx| input[idx]: the slice's bounds check panics past its end
index_closure(input, idx) ==
    IF idx >= Len(input)
    THEN { [panic |-> TRUE, val |-> 0, reads |-> {}] }
    ELSE { [panic |-> FALSE, val |-> input[idx + 1], reads |-> {idx + 1}] }

\* (self.transducer)(self.contents, idx): a call through the fn pointer
Call(f, contents, idx) ==
    CASE f = "transducer" -> transducer(contents, idx)
      [] f = "pread" -> pread(contents, idx)
      [] f = "closure" -> basic_transducer_closure(contents, idx)
      [] f = "index" -> index_closure(contents, idx)

new(contents, len, f) == LazyTransducer(len, contents, f)

len(view) == view.count

\* get with the bound test off by one (idx > count)
get_off_by_one(view, idx) ==
    IF idx > view.count
    THEN { [out |-> None, calls |-> <<>>, reads |-> {}] }
    ELSE { [out |-> IF e.panic THEN Panic ELSE Some(e.val),
            calls |-> <<idx>>, reads |-> e.reads]
           : e \in Call(view.transducer, view.contents, idx) }

\* calls: the indices the extractor was invoked with
get(view, idx) ==
    IF idx >= view.count
    THEN { [out |-> None, calls |-> <<>>, reads |-> {}] }
    ELSE { [out |-> IF e.panic THEN Panic ELSE Some(e.val),
            calls |-> <<idx>>, reads |-> e.reads]
           : e \in Call(view.transducer, view.contents, idx) }

---------------------------------------------------------------------------
(* The fixed-width specialization *)

\* parse_with whose zero test is on the source's length
parse_with_len_nonzero(contents, count, ctx) ==
    LET sizeof_element == size_with(ctx)
    IN  { IF ~m.ok
          THEN Panic
          ELSE LET total_size == m.val
               IN  IF total_size > Len(contents) /\ Len(contents) # 0
                   THEN Err(ElementOverflow(count, sizeof_element, Len(contents)))
                   ELSE Ok(LazyTransducer(count, [input |-> contents, ctx |-> ctx],
                                          "transducer"))
          : m \in usize_mul(sizeof_element, count) }

\* LazyTransducer::parse_with (lib.rs)
parse_with(contents, count, ctx) ==
    LET sizeof_element == size_with(ctx)
    IN  { IF ~m.ok
          THEN Panic
          ELSE LET total_size == m.val
               IN  IF total_size > Len(contents) /\ total_size # 0
                   THEN Err(ElementOverflow(count, sizeof_element, Len(contents)))
                   ELSE Ok(LazyTransducer(count, [input |-> contents, ctx |-> ctx],
                                          "transducer"))
          : m \in usize_mul(sizeof_element, count) }

\* parse_with that also rejects a request for exactly the bytes there are
parse_with_ge(contents, count, ctx) ==
    LET sizeof_element == size_with(ctx)
    IN  { IF ~m.ok
          THEN Panic
          ELSE LET total_size == m.val
               IN  IF total_size >= Len(contents)
                   THEN Err(ElementOverflow(count, sizeof_element, Len(contents)))
                   ELSE Ok(LazyTransducer(count, [input |-> contents, ctx |-> ctx],
                                          "pread"))
          : m \in usize_mul(sizeof_element, count) }

\* ScrollTransducer::parse_with (lazy_transducer.rs)
ScrollTransducer_parse_with(contents, count, ctx) ==
    LET sizeof_element == size_with(ctx)
    IN  { IF ~m.ok
          THEN Panic
          ELSE LET total_size == m.val
               IN  IF total_size > Len(contents)
                   THEN Err(ElementOverflow(count, sizeof_element, Len(contents)))
                   ELSE Ok(LazyTransducer(count, [input |-> contents, ctx |-> ctx],
                                          "pread"))
          : m \in usize_mul(sizeof_element, count) }

\* Result::unwrap
unwrap(r) == IF r.tag = "Ok" THEN r ELSE Panic

\* LazyTransducer::empty (lib.rs); default is Ctx::default()
empty(default) == { unwrap(r) : r \in parse_with(<<>>, 0, default) }

---------------------------------------------------------------------------
(* The builder (builder.rs).  counted is history, not a field of the      *)
(* struct: whether Builder::count was ever called on this builder.        *)

BuilderError(msg) == [kind |-> "BuilderError", msg |-> msg]

Builder(input, count, f, counted) ==
    [tag |-> "Builder", input |-> input, count |-> count, transducer |-> f,
     counted |-> counted]

Builder_empty == Builder(None, 0, None, FALSE)

\* Builder::new that begins with a count of one
Builder_new_count1(input) == Builder(Some(input), 1, None, FALSE)

Builder_new(input) == Builder(Some(input), 0, None, FALSE)

Builder_input(self, input) == [self EXCEPT !.input = Some(input)]

Builder_count(self, count) == [self EXCEPT !.count = count, !.counted = TRUE]

Builder_transducer(self, f) == [self EXCEPT !.transducer = Some(f)]

\* finish that falls back to an extractor when none was set
finish_default_transducer(self) ==
    IF self.input = None
    THEN Err(BuilderError("No input given"))
    ELSE Ok(LazyTransducer(self.count, self.input.val,
                           IF self.transducer = None THEN "closure"
                           ELSE self.transducer.val))

\* Builder::finish
finish(self) ==
    IF self.input = None
    THEN Err(BuilderError("No input given"))
    ELSE IF self.transducer = None
         THEN Err(BuilderError("No transducer given"))
         ELSE Ok(LazyTransducer(self.count, self.input.val, self.transducer.val))

\* Builder::parse_with that asks for a transducer as finish does
Builder_parse_with_as_finish(self, ctx) ==
    IF self.input = None
    THEN { Err(BuilderError("No input given")) }
    ELSE IF self.transducer = None
         THEN { Err(BuilderError("No transducer given")) }
         ELSE parse_with(self.input.val, self.count, ctx)

\* Builder::parse_with; ScrollTransducer names the crate root's type, so
\* the call is lib.rs's parse_with
Builder_parse_with(self, ctx) ==
    IF self.input = None
    THEN { Err(BuilderError("No input given")) }
    ELSE parse_with(self.input.val, self.count, ctx)

---------------------------------------------------------------------------
(* Sequential iteration *)

\* IntoIterator for LazyTransducer (by value)
into_iter(view) == [tag |-> "IntoIter", current |-> 0, lt |-> view]

\* clone that copies the handle and the extractor and forgets the count
clone_empty(view) == LazyTransducer(0, view.contents, view.transducer)

clone(view) == LazyTransducer(view.count, view.contents, view.transducer)

\* IntoIterator for &LazyTransducer: lib.rs borrows the view (Iter),
\* lazy_transducer.rs clones it into an IntoIter
ref_into_iter(view) == [tag |-> "Iter", current |-> 0, lt |-> view]

ref_into_iter_clone(view) == [tag |-> "IntoIter", current |-> 0, lt |-> clone(view)]

\* next that uses up the view it walks: one element fewer after each yield
next_draining(iter) ==
    IF iter.current >= iter.lt.count
    THEN { [self |-> iter, out |-> None, calls |-> <<>>, reads |-> {}] }
    ELSE { [self |-> IF output.out = Panic THEN iter
                     ELSE [iter EXCEPT !.current = iter.current + 1,
                                       !.lt.count = iter.lt.count - 1],
            out |-> output.out, calls |-> output.calls, reads |-> output.reads]
           : output \in get(iter.lt, iter.current) }

\* next with the end test off by one (current > count)
next_gt(iter) ==
    IF iter.current > iter.lt.count
    THEN { [self |-> iter, out |-> None, calls |-> <<>>, reads |-> {}] }
    ELSE { [self |-> IF output.out = Panic THEN iter
                     ELSE [iter EXCEPT !.current = iter.current + 1],
            out |-> output.out, calls |-> output.calls, reads |-> output.reads]
           : output \in get(iter.lt, iter.current) }

\* Iter::next and IntoIter::next (the same text three times)
next(iter) ==
    IF iter.current >= iter.lt.count
    THEN { [self |-> iter, out |-> None, calls |-> <<>>, reads |-> {}] }
    ELSE { [self |-> IF output.out = Panic THEN iter
                     ELSE [iter EXCEPT !.current = iter.current + 1],
            out |-> output.out, calls |-> output.calls, reads |-> output.reads]
           : output \in get(iter.lt, iter.current) }

\* ExactSizeIterator::len for IntoIter
IntoIter_len(iter) == iter.lt.count

---------------------------------------------------------------------------
(* Parallel iteration: the producer handed to rayon's bridge_unindexed.   *)
(* Every producer refers to the one view, lt.                              *)

Producer(current, top) == [current |-> current, top |-> top]

into_par_iter(view) == [current |-> 0, lt |-> view]

\* IntoParIter::drive_unindexed: the producer it hands to the bridge
drive_unindexed(self) == Producer(self.current, self.lt.count)

\* Producer::next that moves the cursor by two
Producer_next_skip(self, view) ==
    IF self.current >= self.top \/ self.current >= view.count
    THEN { [self |-> self, out |-> None, calls |-> <<>>, reads |-> {}] }
    ELSE { [self |-> IF output.out = Panic THEN self
                     ELSE [self EXCEPT !.current = self.current + 2],
            out |-> output.out, calls |-> output.calls, reads |-> output.reads]
           : output \in get(view, self.current) }

\* Producer::next that tests the cursor against the count only
Producer_next_no_top(self, view) ==
    IF self.current >= view.count
    THEN { [self |-> self, out |-> None, calls |-> <<>>, reads |-> {}] }
    ELSE { [self |-> IF output.out = Panic THEN self
                     ELSE [self EXCEPT !.current = self.current + 1],
            out |-> output.out, calls |-> output.calls, reads |-> output.reads]
           : output \in get(view, self.current) }

\* Producer::next that stops one element short of top
Producer_next_short(self, view) ==
    IF self.current + 1 >= self.top \/ self.current >= view.count
    THEN { [self |-> self, out |-> None, calls |-> <<>>, reads |-> {}] }
    ELSE { [self |-> IF output.out = Panic THEN self
                     ELSE [self EXCEPT !.current = self.current + 1],
            out |-> output.out, calls |-> output.calls, reads |-> output.reads]
           : output \in get(view, self.current) }

\* Producer::next
Producer_next(self, view) ==
    IF self.current >= self.top \/ self.current >= view.count
    THEN { [self |-> self, out |-> None, calls |-> <<>>, reads |-> {}] }
    ELSE { [self |-> IF output.out = Panic THEN self
                     ELSE [self EXCEPT !.current = self.current + 1],
            out |-> output.out, calls |-> output.calls, reads |-> output.reads]
           : output \in get(view, self.current) }

\* a - b on usize: the set of outcomes the build can produce
usize_sub(a, b) ==
    IF a >= b
    THEN { [ok |-> TRUE, val |-> a - b] }
    ELSE { [ok |-> FALSE, val |-> 0],
           [ok |-> TRUE, val |-> (a - b) % WordMod] }

\* split that cuts at a quarter of the length
split_quarter(self) ==
    { IF ~d.ok
      THEN Panic
      ELSE LET length == d.val
           IN  IF length > 1
               THEN LET old_top == self.top
                        split_len == length \div 4
                        left == [self EXCEPT !.top = self.current + split_len]
                        right == Producer(left.top, old_top)
                    IN  [tag |-> "Split", left |-> left, right |-> Some(right)]
               ELSE [tag |-> "Split", left |-> self, right |-> None]
      : d \in usize_sub(self.top, self.current) }

\* split that also cuts a range of one element
split_leaf(self) ==
    { IF ~d.ok
      THEN Panic
      ELSE LET length == d.val
           IN  IF length > 0
               THEN LET old_top == self.top
                        split_len == length \div 2
                        left == [self EXCEPT !.top = self.current + split_len]
                        right == Producer(left.top, old_top)
                    IN  [tag |-> "Split", left |-> left, right |-> Some(right)]
               ELSE [tag |-> "Split", left |-> self, right |-> None]
      : d \in usize_sub(self.top, self.current) }

\* split that cuts one element off the front
split_one(self) ==
    { IF ~d.ok
      THEN Panic
      ELSE LET length == d.val
           IN  IF length > 1
               THEN LET old_top == self.top
                        split_len == 1
                        left == [self EXCEPT !.top = self.current + split_len]
                        right == Producer(left.top, old_top)
                    IN  [tag |-> "Split", left |-> left, right |-> Some(right)]
               ELSE [tag |-> "Split", left |-> self, right |-> None]
      : d \in usize_sub(self.top, self.current) }

\* split whose right half begins one before the left half's end
split_overlap(self) ==
    { IF ~d.ok
      THEN Panic
      ELSE LET length == d.val
           IN  IF length > 1
               THEN LET old_top == self.top
                        split_len == length \div 2
                        left == [self EXCEPT !.top = self.current + split_len]
                        right == Producer(left.top - 1, old_top)
                    IN  [tag |-> "Split", left |-> left, right |-> Some(right)]
               ELSE [tag |-> "Split", left |-> self, right |-> None]
      : d \in usize_sub(self.top, self.current) }

\* split that rounds the left half's length up
split_ceil(self) ==
    { IF ~d.ok
      THEN Panic
      ELSE LET length == d.val
           IN  IF length > 1
               THEN LET old_top == self.top
                        split_len == (length + 1) \div 2
                        left == [self EXCEPT !.top = self.current + split_len]
                        right == Producer(left.top, old_top)
                    IN  [tag |-> "Split", left |-> left, right |-> Some(right)]
               ELSE [tag |-> "Split", left |-> self, right |-> None]
      : d \in usize_sub(self.top, self.current) }

\* split whose right half begins one past the left half's end
split_gap(self) ==
    { IF ~d.ok
      THEN Panic
      ELSE LET length == d.val
           IN  IF length > 1
               THEN LET old_top == self.top
                        split_len == length \div 2
                        left == [self EXCEPT !.top = self.current + split_len]
                        right == Producer(left.top + 1, old_top)
                    IN  [tag |-> "Split", left |-> left, right |-> Some(right)]
               ELSE [tag |-> "Split", left |-> self, right |-> None]
      : d \in usize_sub(self.top, self.current) }

\* Producer::split: (self, Option<right>)
split(self) ==
    { IF ~d.ok
      THEN Panic
      ELSE LET length == d.val
           IN  IF length > 1
               THEN LET old_top == self.top
                        split_len == length \div 2
                        left == [self EXCEPT !.top = self.current + split_len]
                        right == Producer(left.top, old_top)
                    IN  [tag |-> "Split", left |-> left, right |-> Some(right)]
               ELSE [tag |-> "Split", left |-> self, right |-> None]
      : d \in usize_sub(self.top, self.current) }

\* Iterator::collect (tests/test.rs, ns2): the iterator folded to its end.
\* out: the elements yielded; end: None, or the panic that cut it short
RECURSIVE collect(_, _)
collect(iter, acc) ==
    UNION { IF r.out.tag = "Some"
            THEN collect(r.self, Append(acc, r.out.val))
            ELSE { [out |-> acc, end |-> r.out] }
            : r \in next(iter) }

\* Producer::fold_with: the folder consumes the producer to its end.
\* idx: the indices the extractor was called with, in call order; end:
\* None, or the panic that cut the fold short
RECURSIVE fold_with(_, _, _)
fold_with(self, view, acc) ==
    UNION { IF r.out.tag = "Some"
            THEN fold_with(r.self, view, acc \o r.calls)
            ELSE { [idx |-> acc \o r.calls, end |-> r.out] }
            : r \in Producer_next(self, view) }

---------------------------------------------------------------------------
(* The program: it makes one constructor call and, when that gave a view, *)
(* the view is read, iterated or driven in parallel.  One traversal is     *)
(* live at a time: beginning one drops the other.  A panic ends the        *)
(* program.                                                                *)

Call0 == [op |-> "start", args |-> <<>>, out |-> None, calls |-> <<>>, reads |-> {}]

Halted == result.out = Panic

\* no constructor was called yet and no builder was begun
NotStarted == result.op = "start" /\ builder = NoBuilder

HasView == lt.tag = "LazyTransducer"

\* the view is one of the fixed-width specialization (made by parse_with)
FixedWidth == HasView /\ lt.transducer \in {"transducer", "pread"}

Init ==
    /\ lt = NoView
    /\ it = NoIter
    /\ seqOut = <<>>
    /\ producers = {}
    /\ parOut = EmptyBag
    /\ result = Call0
    /\ builder = NoBuilder
    /\ prev = NoRun

\* what a constructor call leaves behind
Constructed(op, args, r) ==
    /\ lt' = IF r.tag = "Ok" THEN r.val ELSE lt
    /\ result' = [op |-> op, args |-> args, out |-> r, calls |-> <<>>, reads |-> {}]
    /\ builder' = NoBuilder
    /\ UNCHANGED <<it, seqOut, producers, parOut, prev>>

New ==
    /\ NotStarted
    /\ \E b \in Buffers, n \in Usize :
          Constructed("new", <<b, n>>, Ok(new(b, n, "closure")))

ParseWith ==
    /\ NotStarted
    /\ \E b \in Buffers, c \in Ctxs, n \in Usize :
          \E r \in parse_with(b, n, c) :
             Constructed("parse_with", <<b, n, c>>, r)

ScrollParseWith ==
    /\ NotStarted
    /\ \E b \in Buffers, c \in Ctxs, n \in Usize :
          \E r \in ScrollTransducer_parse_with(b, n, c) :
             Constructed("ScrollTransducer::parse_with", <<b, n, c>>, r)

Empty ==
    /\ NotStarted
    /\ \E c \in DefaultCtxs :
          \E r \in empty(c) : Constructed("empty", <<c>>, r)

\* the extractors handed to a builder over a byte slice
BuilderTransducers == {"closure", "index"}

\* a builder is being filled: no constructor has returned yet
Building == result.op = "start" /\ builder # NoBuilder

BuilderEmpty ==
    /\ NotStarted
    /\ builder' = Builder_empty
    /\ UNCHANGED <<lt, it, seqOut, producers, parOut, result, prev>>

BuilderNew ==
    /\ NotStarted
    /\ \E b \in Buffers : builder' = Builder_new(b)
    /\ UNCHANGED <<lt, it, seqOut, producers, parOut, result, prev>>

BuilderInput ==
    /\ Building
    /\ \E b \in Buffers : builder' = Builder_input(builder, b)
    /\ UNCHANGED <<lt, it, seqOut, producers, parOut, result, prev>>

BuilderCount ==
    /\ Building
    /\ \E n \in Usize : builder' = Builder_count(builder, n)
    /\ UNCHANGED <<lt, it, seqOut, producers, parOut, result, prev>>

BuilderTransducer ==
    /\ Building
    /\ \E f \in BuilderTransducers : builder' = Builder_transducer(builder, f)
    /\ UNCHANGED <<lt, it, seqOut, producers, parOut, result, prev>>

Finish ==
    /\ Building
    /\ Constructed("finish", <<builder>>, finish(builder))

BuilderParseWith ==
    /\ Building
    /\ \E c \in Ctxs :
          \E r \in Builder_parse_with(builder, c) :
             Constructed("Builder::parse_with", <<builder, c>>, r)

\* lt.clone(), the clone handed back to the caller
Clone ==
    /\ ~Halted /\ HasView
    /\ it = NoIter /\ producers = {}
    /\ result' = [op |-> "clone", args |-> <<>>, out |-> clone(lt),
                  calls |-> <<>>, reads |-> {}]
    /\ UNCHANGED <<lt, it, seqOut, producers, parOut, builder, prev>>

\* the indices asked for: every index of the view and two past its end
GetIdx == { i \in Usize : i <= lt.count + 1 }

Get ==
    /\ ~Halted /\ HasView
    /\ it = NoIter /\ producers = {}
    /\ \E idx \in GetIdx :
          \E r \in get(lt, idx) :
             result' = [op |-> "get", args |-> <<idx>>, out |-> r.out,
                        calls |-> r.calls, reads |-> r.reads]
    /\ UNCHANGED <<lt, it, seqOut, producers, parOut, builder, prev>>

\* the sequential iterator's last next() returned None
RunEnded == it # NoIter /\ result.op = "next" /\ result.out = None

BeginIter(op, iter) ==
    /\ it' = iter
    /\ seqOut' = <<>>
    /\ producers' = {}
    /\ parOut' = EmptyBag
    /\ result' = [op |-> op, args |-> <<>>, out |-> None, calls |-> <<>>, reads |-> {}]
    /\ prev' = IF RunEnded THEN Run(seqOut) ELSE prev
    /\ UNCHANGED <<lt, builder>>

\* lt.clone().into_iter()
IntoIter == ~Halted /\ HasView /\ BeginIter("into_iter", into_iter(clone(lt)))

\* (&lt).into_iter() of lib.rs
RefIntoIter == ~Halted /\ HasView /\ BeginIter("(&lt).into_iter", ref_into_iter(lt))

\* (&lt).into_iter() of lazy_transducer.rs
RefIntoIterClone ==
    ~Halted /\ HasView /\ BeginIter("(&lt).into_iter", ref_into_iter_clone(lt))

Yield(seq, out) == IF out.tag = "Some" THEN Append(seq, out.val) ELSE seq

IterNext ==
    /\ ~Halted /\ it # NoIter
    /\ \E r \in next(it) :
          /\ it' = r.self
          /\ seqOut' = Yield(seqOut, r.out)
          /\ result' = [op |-> "next", args |-> <<it.current>>, out |-> r.out,
                        calls |-> r.calls, reads |-> r.reads]
    /\ UNCHANGED <<lt, producers, parOut, builder, prev>>

\* lt.clone().into_par_iter() driven by a consumer: bridge_unindexed
\* receives the first producer
Drive ==
    /\ ~Halted /\ HasView
    /\ lt.count <= MaxPar
    /\ producers' = { drive_unindexed(into_par_iter(clone(lt))) }
    /\ parOut' = EmptyBag
    /\ it' = NoIter
    /\ seqOut' = <<>>
    /\ result' = [op |-> "drive_unindexed", args |-> <<>>, out |-> None,
                  calls |-> <<>>, reads |-> {}]
    /\ prev' = NoRun
    /\ UNCHANGED <<lt, builder>>

YieldPar(bag, idx, out) ==
    IF out.tag = "Some" THEN bag (+) SetToBag({<<idx, out.val>>}) ELSE bag

\* a worker folds its producer one step further
ProducerNext ==
    /\ ~Halted
    /\ \E p \in producers :
          \E r \in Producer_next(p, lt) :
             /\ producers' = (producers \ {p}) \cup {r.self}
             /\ parOut' = YieldPar(parOut, p.current, r.out)
             /\ result' = [op |-> "Producer::next", args |-> <<p>>, out |-> r.out,
                           calls |-> r.calls, reads |-> r.reads]
    /\ UNCHANGED <<lt, it, seqOut, builder, prev>>

Halves(s) ==
    IF s.tag # "Split" THEN {}
    ELSE {s.left} \cup (IF s.right.tag = "Some" THEN {s.right.val} ELSE {})

\* the bridge splits a producer
Split ==
    /\ ~Halted
    /\ \E p \in producers :
          \E s \in split(p) :
             /\ producers' = IF s = Panic THEN producers
                             ELSE (producers \ {p}) \cup Halves(s)
             /\ result' = [op |-> "split", args |-> <<p>>, out |-> s,
                           calls |-> <<>>, reads |-> {}]
    /\ UNCHANGED <<lt, it, seqOut, parOut, builder, prev>>

Next ==
    \/ New
    \/ ParseWith
    \/ ScrollParseWith
    \/ Empty
    \/ BuilderEmpty
    \/ BuilderNew
    \/ BuilderInput
    \/ BuilderCount
    \/ BuilderTransducer
    \/ Finish
    \/ BuilderParseWith
    \/ Get
    \/ Clone
    \/ IntoIter
    \/ RefIntoIter
    \/ RefIntoIterClone
    \/ IterNext
    \/ Drive
    \/ ProducerNext
    \/ Split

Spec == Init /\ [][Next]_vars

---------------------------------------------------------------------------
(* Properties *)

\* the indices of a producer's range [current, top)
Range(p) == { i \in Usize : p.current <= i /\ i < p.top }

\* only splits have acted on the producers: nothing was yielded yet
OnlySplits == producers # {} /\ parOut = EmptyBag

\* C1: work conservation.  Whatever splits were applied, in any order, to
\* the producers descending from [0, N): the ranges of the producers that
\* exist are pairwise disjoint and their union is exactly [0, N).
C1_WorkConservation ==
    OnlySplits =>
        /\ \A p, q \in producers : p # q => Range(p) \cap Range(q) = {}
        /\ UNION { Range(p) : p \in producers } = { i \in Usize : i < lt.count }

\* C1 witness: [0, MaxPar) split down to its leaves
C1_Witness ==
    /\ OnlySplits
    /\ lt.count = MaxPar
    /\ Cardinality(producers) = MaxPar

\* C2: get(idx) is Some(extractor(source, idx)) for idx < count (the
\* extractor called once, with idx), and None for idx >= count with no
\* extractor call and no source access.
C2_Get ==
    result.op = "get" =>
        LET idx == result.args[1]
        IN  IF idx < lt.count
            THEN /\ result.calls = <<idx>>
                 /\ \E e \in Call(lt.transducer, lt.contents, idx) :
                       /\ result.out = IF e.panic THEN Panic ELSE Some(e.val)
                       /\ result.reads = e.reads
            ELSE /\ result.out = None
                 /\ result.calls = <<>>
                 /\ result.reads = {}

\* C2 witness: get(count) on a view of four elements is None
C2_Witness ==
    /\ result.op = "get"
    /\ lt.count = 4
    /\ result.args[1] = lt.count
    /\ result.out = None

\* the calls of the fixed-width constructor; their arguments are
\* <<contents, count, ctx>>
ParseOps == {"parse_with", "ScrollTransducer::parse_with"}

\* C3: after a successful parse_with, the bytes of every record get(idx)
\* decodes, idx < count, lie inside the buffer, whatever count was asked.
\* Fails: with a count whose product with the element size wraps around
\* the word, parse_with succeeds and records lie past the buffer's end.
C3_InBounds ==
    FixedWidth =>
        \A idx \in 0 .. (lt.count - 1) :
            size_with(lt.contents.ctx) * idx + size_with(lt.contents.ctx)
                <= Len(lt.contents.input)

\* C4: parse_with with count * size_of(ctx) > bytes.length() fails with
\* ElementOverflow carrying the count, the element size and the source
\* length, constructs no view and reads no byte.
\* Fails for the counts whose product wraps (C22): Ok, or a panic.
C4_OverflowRejected ==
    (/\ result.op \in ParseOps
     /\ result.args[2] * size_with(result.args[3]) > Len(result.args[1]))
    => /\ result.out = Err(ElementOverflow(result.args[2],
                                           size_with(result.args[3]),
                                           Len(result.args[1])))
       /\ lt = NoView
       /\ result.calls = <<>>
       /\ result.reads = {}

\* C5: parse_with(bytes, 0, ctx) succeeds for every buffer and element
\* size; the view has len() = 0 and its iterator's first next() is None;
\* empty() never fails.
C5_ZeroCount ==
    /\ (result.op \in ParseOps /\ result.args[2] = 0) =>
          /\ result.out.tag = "Ok"
          /\ HasView /\ len(lt) = 0
          /\ \A r \in next(into_iter(lt)) : r.out = None
    /\ result.op = "empty" =>
          /\ result.out.tag = "Ok"
          /\ HasView /\ len(lt) = 0
    /\ (FixedWidth /\ lt.count = 0 /\ result.op = "next") =>
          /\ result.out = None
          /\ seqOut = <<>>

\* C5 witness: the view parsed with count 0 from the empty buffer, for
\* 4-byte records, has been iterated
C5_Witness ==
    /\ FixedWidth
    /\ lt.count = 0
    /\ lt.contents.input = <<>>
    /\ size_with(lt.contents.ctx) = 4
    /\ result.op = "next"

\* a reference decoder: the number the size bytes at offset spell, most
\* significant byte first ("BE") or last ("LE")
RefDigit(bytes, offset, size, endian, k) ==
    IF endian = "BE" THEN bytes[offset + size - k] ELSE bytes[offset + k + 1]

RECURSIVE RefSum(_, _, _, _, _)
RefSum(bytes, offset, size, endian, k) ==
    IF k >= size THEN 0
    ELSE RefDigit(bytes, offset, size, endian, k) * (256 ^ k)
            + RefSum(bytes, offset, size, endian, k + 1)

RefDecode(bytes, offset, ctx) == RefSum(bytes, offset, ctx.size, ctx.endian, 0)

\* C6: on a view built by a successful parse_with, get(idx), idx < count,
\* is the record a reference decoder reads at offset size_of(ctx) * idx,
\* and get(idx) is None for idx >= count.  (Contexts whose decoder accepts
\* every record of the right width: the reference decoder reads a record
\* wherever the bytes are there.)
\* Fails on the views parse_with lets through with a wrapped product (C22).
C6_Indexing ==
    (result.op = "get" /\ FixedWidth /\ ~lt.contents.ctx.strict) =>
        LET idx == result.args[1]
            offset == size_with(lt.contents.ctx) * idx
        IN  IF idx < lt.count
            THEN /\ offset + size_with(lt.contents.ctx) <= Len(lt.contents.input)
                 /\ result.out = Some(RefDecode(lt.contents.input, offset,
                                                lt.contents.ctx))
            ELSE result.out = None

\* C7: when the decode of a record whose bytes are inside the buffer
\* fails, get / next hands the failure to the caller; it does not panic.
\* Fails: the extractor unwraps the decode result.
C7_DecodeFailureSurfaced ==
    (/\ FixedWidth
     /\ result.op \in {"get", "next", "Producer::next"}
     /\ result.calls # <<>>
     /\ LET offset == size_with(lt.contents.ctx) * result.calls[1]
        IN  /\ offset + size_with(lt.contents.ctx) <= Len(lt.contents.input)
            /\ pread_with(lt.contents.input, offset, lt.contents.ctx).tag = "Err")
    => result.out # Panic

\* what get(k) can give
Outs(view, k) == { g.out : g \in get(view, k) }

\* C8: sequential iteration of a view of count N, by value or by
\* reference: the k-th next() (k = 0 .. N-1) returns get(k) and moves the
\* cursor by one, so the elements come in ascending index order with none
\* skipped or repeated; every next() after the N-th returns None and
\* leaves the cursor where it is, N elements having been yielded.
C8_SequentialOrder ==
    it # NoIter =>
        /\ it.lt = lt
        /\ it.current <= lt.count
        /\ Len(seqOut) = it.current
        /\ \A k \in 1 .. Len(seqOut) : Some(seqOut[k]) \in Outs(lt, k - 1)
        /\ result.op = "next" =>
              LET k == result.args[1]
              IN  IF k < lt.count
                  THEN /\ result.out \in Outs(lt, k)
                       /\ result.out # None
                       /\ result.out # Panic => it.current = k + 1
                  ELSE /\ result.out = None
                       /\ it.current = k
                       /\ Len(seqOut) = lt.count

\* C8 witness: the four records of the scenario buffer were yielded in
\* order and next() has returned None
C8_Witness ==
    /\ it # NoIter
    /\ result.op = "next"
    /\ result.out = None
    /\ lt.count = 4
    /\ seqOut = <<4, 5, 1, 5>>

\* every producer has been folded to its end: its next() gives None
AllExhausted ==
    /\ producers # {}
    /\ \A p \in producers : \A r \in Producer_next(p, lt) : r.out = None

\* C9: once the producers of any split of [0, count) are all folded to
\* their end, what they yielded is, as a multiset, what sequential
\* iteration of the view yields: as many elements, and each index once
\* with the element sequential iteration gives at that index.
C9_ParallelEqualsSequential ==
    AllExhausted =>
        \E s \in collect(into_iter(clone(lt)), <<>>) :
            /\ s.end = None
            /\ BagCardinality(parOut) = Len(s.out)
            /\ parOut = SetToBag({ <<k - 1, s.out[k]>> : k \in 1 .. Len(s.out) })

\* C9 witness: MaxPar elements, at least three producers, all exhausted
C9_Witness ==
    /\ AllExhausted
    /\ lt.count = MaxPar
    /\ Cardinality(producers) >= 3
    /\ BagCardinality(parOut) = MaxPar

\* the length of a producer's range
RangeLen(p) == p.top - p.current

SplitInTwo == result.op = "split" /\ result.out # Panic /\ result.out.right # None

\* C10 as claimed: for an odd length > 1 the left half (the mutated self)
\* gets the larger share, and always at least the right half's length.
\* Fails: split_len = len / 2 rounds down and is the LEFT half's length.
C10_LeftLarger ==
    SplitInTwo =>
        /\ RangeLen(result.out.left) >= RangeLen(result.out.right.val)
        /\ RangeLen(result.args[1]) % 2 = 1 =>
              RangeLen(result.out.left) > RangeLen(result.out.right.val)

\* C10 amended: for an odd length > 1 the right half gets the larger
\* share, and for every length > 1 the left half's length is less than or
\* equal to the right half's.
C10_RightLarger ==
    SplitInTwo =>
        /\ RangeLen(result.out.left) <= RangeLen(result.out.right.val)
        /\ RangeLen(result.args[1]) % 2 = 1 =>
              RangeLen(result.out.left) < RangeLen(result.out.right.val)

\* C10 witness: a range of length 5 was split
C10_Witness ==
    /\ SplitInTwo
    /\ RangeLen(result.args[1]) = 5

\* C11: Builder::finish fails with a BuilderError, producing no view,
\* whenever the input or the transducer was never set; with both set it
\* succeeds and the view has the builder's input, count and transducer.
C11_Finish ==
    result.op = "finish" =>
        LET b == result.args[1]
        IN  IF b.input = None \/ b.transducer = None
            THEN /\ result.out.tag = "Err"
                 /\ result.out.err.kind = "BuilderError"
                 /\ lt = NoView
            ELSE /\ result.out.tag = "Ok"
                 /\ lt = result.out.val
                 /\ lt.contents = b.input.val
                 /\ lt.count = b.count
                 /\ lt.transducer = b.transducer.val

\* C11 witness: finish on a builder with an input and no transducer
C11_Witness ==
    /\ result.op = "finish"
    /\ result.args[1].input = Some(Scenario)
    /\ result.args[1].transducer = None
    /\ result.args[1].count = 4
    /\ result.out.tag = "Err"

\* C12: when Builder::count was never called the count is 0: finish, with
\* input and transducer set, succeeds with a view of len() 0 whose get is
\* None for every index and whose iteration yields nothing.
C12_DefaultCount ==
    (/\ result.op = "finish"
     /\ ~result.args[1].counted
     /\ result.args[1].input # None
     /\ result.args[1].transducer # None)
    => /\ result.out.tag = "Ok"
       /\ HasView /\ len(lt) = 0
       /\ \A idx \in Usize : \A g \in get(lt, idx) : g.out = None /\ g.calls = <<>>
       /\ \A r \in next(into_iter(lt)) : r.out = None
       /\ \A s \in collect(into_iter(lt), <<>>) : s.out = <<>> /\ s.end = None

\* C12 witness: Builder::new(scenario bytes).transducer(f).finish()
C12_Witness ==
    /\ result.op = "finish"
    /\ ~result.args[1].counted
    /\ result.args[1].input = Some(Scenario)
    /\ result.args[1].transducer = Some("closure")
    /\ result.out.tag = "Ok"

\* C13: the view's source, count and extractor are what construction made
\* them after every operation (len, get, clone, iteration by reference or
\* by value, Producer::next, split): no step changes the view, a live
\* iterator walks a view equal to it, iteration by reference begins at
\* index 0, and a run that ends yields the sequence the run before it
\* yielded.
C13_ViewUnchanged ==
    /\ [][HasView => /\ lt' = lt
                     /\ len(lt') = len(lt)]_vars
    /\ [](it # NoIter => it.lt = lt)
    /\ [](result.op = "(&lt).into_iter" => it.current = 0 /\ seqOut = <<>>)
    /\ [](RunEnded /\ prev # NoRun => seqOut = prev.out)

\* C13 witness: a second run by reference over the four records has ended
C13_Witness ==
    /\ RunEnded
    /\ it.tag = "Iter"
    /\ prev = Run(<<4, 5, 1, 5>>)
    /\ seqOut = <<4, 5, 1, 5>>

\* how often index i was yielded by the producers
Yielded(i) == { e \in BagToSet(parOut) : e[1] = i }

\* C14: under every interleaving of the workers' next and split steps a
\* step works on its own producer only: the other producers stay as they
\* are, the view is only read, the extractor is called with indices of the
\* stepping producer's range, and the producers a split makes lie within
\* the range it split.  Once all producers are exhausted every index of
\* [0, count) was yielded exactly once and no other index.
C14_Interleaving ==
    /\ [][result'.op \in {"Producer::next", "split"} =>
            LET p == result'.args[1]
            IN  /\ p \in producers
                /\ lt' = lt
                /\ (producers \ {p}) \subseteq producers'
                /\ \A q \in producers' \ producers : Range(q) \subseteq Range(p)
                /\ \A k \in 1 .. Len(result'.calls) : result'.calls[k] \in Range(p)
                /\ result'.op = "split" => result'.calls = <<>> /\ parOut' = parOut]_vars
    /\ [](AllExhausted =>
            \A i \in Usize :
               IF i < lt.count
               THEN /\ Cardinality(Yielded(i)) = 1
                    /\ \A e \in Yielded(i) : CopiesIn(e, parOut) = 1
               ELSE Yielded(i) = {})

\* C14 witness: three single-element producers over <<1, 2, 3>>, exhausted
\* in some order
C14_Witness ==
    /\ AllExhausted
    /\ lt.transducer = "index"
    /\ lt.count = 3
    /\ Cardinality(producers) = 3
    /\ BagCardinality(parOut) = 3

\* C15: a clone has the original's source, count and extractor: its len()
\* is the original's and its get(idx) is the original's get(idx) for
\* every index; cloning calls the extractor zero times and leaves the
\* original as it was.
C15_Clone ==
    /\ [][result'.op = "clone" => lt' = lt]_vars
    /\ [](result.op = "clone" =>
            /\ result.out.contents = lt.contents
            /\ result.out.count = lt.count
            /\ result.out.transducer = lt.transducer
            /\ len(result.out) = len(lt)
            /\ \A idx \in GetIdx : get(result.out, idx) = get(lt, idx)
            /\ result.calls = <<>>
            /\ result.reads = {})

\* C15 witness: a view of four records was cloned
C15_Witness ==
    /\ result.op = "clone"
    /\ result.out.count = 4
    /\ result.out.transducer = "pread"
    /\ result.out.contents.input = Scenario

\* C16: split of a producer whose range holds more than one index gives
\* the left half [current, mid) and the right half [mid, top) with
\* mid = current + floor((top - current) / 2): the left half keeps the
\* original's current, the right half its top.
C16_SplitHalves ==
    (/\ result.op = "split"
     /\ result.out # Panic
     /\ RangeLen(result.args[1]) > 1)
    => LET p == result.args[1]
           mid == p.current + ((p.top - p.current) \div 2)
       IN  /\ result.out.left = Producer(p.current, mid)
           /\ result.out.right = Some(Producer(mid, p.top))
           /\ result.out.left.current = p.current
           /\ result.out.right.val.top = p.top
           /\ Producer(p.current, mid) \in producers
           /\ Producer(mid, p.top) \in producers

\* C16 witness: [1, 4) is split into [1, 2) and [2, 4)
C16_Witness ==
    /\ result.op = "split"
    /\ result.args[1] = Producer(1, 4)
    /\ result.out.left = Producer(1, 2)
    /\ result.out.right = Some(Producer(2, 4))

\* a producer that split gives back whole
Leaf(p) == RangeLen(p) <= 1

\* C17: split of a producer whose range holds no index or one gives the
\* producer back as it was, with no right half; a leaf gives no second
\* producer however often it is split.
C17_LeafSplit ==
    /\ (result.op = "split" /\ Leaf(result.args[1]))
       => /\ result.out # Panic
          /\ result.out.left = result.args[1]
          /\ result.out.right = None
          /\ result.args[1] \in producers
    /\ \A p \in producers :
          Leaf(p) => \A s \in split(p) :
                        /\ s # Panic
                        /\ Halves(s) = {p}
                        /\ \A s2 \in split(s.left) : Halves(s2) = {p}

\* C17 witness: the one-element range [2, 3) was split and came back whole
C17_Witness ==
    /\ result.op = "split"
    /\ result.args[1] = Producer(2, 3)
    /\ result.out.right = None
    /\ Producer(2, 3) \in producers

\* C18: Producer::next returns None and leaves current as it is when
\* current >= top or current >= count; otherwise it returns the view's
\* get(current) and moves current by one.  A producer over [c, t) folded
\* to its end calls the extractor with c, c+1, ..., t-1 in this order.
C18_ProducerNext ==
    /\ result.op = "Producer::next" =>
          LET p == result.args[1]
          IN  IF p.current >= p.top \/ p.current >= lt.count
              THEN /\ result.out = None
                   /\ result.calls = <<>>
                   /\ p \in producers
              ELSE /\ result.out \in Outs(lt, p.current)
                   /\ result.out # None
                   /\ result.calls = <<p.current>>
                   /\ result.out # Panic =>
                         /\ [p EXCEPT !.current = p.current + 1] \in producers
                         /\ p \notin producers
    /\ \A p \in producers :
          \A f \in fold_with(p, lt, <<>>) :
             /\ Len(f.idx) <= RangeLen(p)
             /\ \A k \in 1 .. Len(f.idx) : f.idx[k] = p.current + k - 1
             /\ f.end = None => Len(f.idx) = RangeLen(p)

\* C18 witness: a right half that began at index 2 has yielded get(2)
C18_Witness ==
    /\ result.op = "Producer::next"
    /\ result.args[1] = Producer(2, 4)
    /\ result.out \in Outs(lt, 2)
    /\ result.out.tag = "Some"
    /\ Producer(3, 4) \in producers

\* C19: every producer that next and split steps reach from the first one
\* has 0 <= current <= top <= count, so the subtraction top - current in
\* split never underflows.
C19_ProducerBounds ==
    /\ \A p \in producers :
          /\ 0 <= p.current
          /\ p.current <= p.top
          /\ p.top <= lt.count
          /\ \A d \in usize_sub(p.top, p.current) : d.ok /\ d.val = RangeLen(p)
    /\ result.op = "split" => result.out # Panic

\* C19 witness: a split of an exhausted producer inside the view
C19_Witness ==
    /\ result.op = "split"
    /\ result.args[1].current = result.args[1].top
    /\ result.args[1].current > 0
    /\ result.args[1].top < lt.count
    /\ Cardinality(producers) >= 3

\* C20: when split gives a right half, both halves hold at least one
\* index, each holds fewer than the original, and their lengths differ by
\* at most one.
C20_BalancedHalves ==
    SplitInTwo =>
        LET p == result.args[1]
            l == RangeLen(result.out.left)
            r == RangeLen(result.out.right.val)
        IN  /\ l >= 1 /\ r >= 1
            /\ l < RangeLen(p) /\ r < RangeLen(p)
            /\ l + r = RangeLen(p)
            /\ l - r <= 1 /\ r - l <= 1

\* C20 witness: a range of four indices that starts past index 0 is split
C20_Witness ==
    /\ SplitInTwo
    /\ result.args[1].current = 1
    /\ RangeLen(result.args[1]) = 4
    /\ RangeLen(result.out.left) = 2
    /\ RangeLen(result.out.right.val) = 2

\* the larger of two numbers
Larger(a, b) == IF a >= b THEN a ELSE b

\* ceil(log2 n) for n >= 1, and 0 for n = 0: the least k with 2^k >= n
CeilLog2(n) == CHOOSE k \in 0 .. WordBits : 2 ^ k >= n /\ \A j \in 0 .. k - 1 : 2 ^ j < n

\* split applied to a producer and again to every producer it gives, until
\* it gives no right half.  splits: the splits that gave a right half;
\* depth: the most splits between the producer and a leaf; leaves: the
\* producers left at the end
RECURSIVE SplitAll(_)
SplitAll(p) ==
    UNION { IF s = Panic
            THEN { [ok |-> FALSE, splits |-> 0, depth |-> 0, leaves |-> {}] }
            ELSE IF s.right = None
            THEN { [ok |-> TRUE, splits |-> 0, depth |-> 0, leaves |-> {s.left}] }
            ELSE { [ok |-> l.ok /\ r.ok,
                    splits |-> 1 + l.splits + r.splits,
                    depth |-> 1 + Larger(l.depth, r.depth),
                    leaves |-> l.leaves \cup r.leaves]
                   : l \in SplitAll(s.left), r \in SplitAll(s.right.val) }
            : s \in split(p) }

\* no producer can be split further
AllLeaves == \A p \in producers : \A s \in split(p) : s # Panic /\ s.right = None

\* C21: splitting [0, N) and every producer that comes of it until split
\* gives no right half ends: each split that gives a right half adds one
\* producer and there are never more than N of them.  It makes N - 1 such
\* splits for N >= 1 and none for N = 0, every leaf then holds exactly one
\* index (N >= 1), and no leaf is more than ceil(log2 N) splits away from
\* the first producer.
C21_SplitTree ==
    /\ [][SplitInTwo' /\ result' # result =>
             Cardinality(producers') = Cardinality(producers) + 1]_vars
    /\ [](OnlySplits =>
            LET N == lt.count
                root == drive_unindexed(into_par_iter(clone(lt)))
            IN  /\ Cardinality(producers) <= Larger(N, 1)
                /\ AllLeaves =>
                      /\ Cardinality(producers) - 1 = (IF N >= 1 THEN N - 1 ELSE 0)
                      /\ \A p \in producers : RangeLen(p) = (IF N >= 1 THEN 1 ELSE 0)
                /\ \A t \in SplitAll(root) :
                      /\ t.ok
                      /\ t.splits = (IF N >= 1 THEN N - 1 ELSE 0)
                      /\ \A p \in t.leaves : RangeLen(p) = (IF N >= 1 THEN 1 ELSE 0)
                      /\ t.leaves = (IF AllLeaves THEN producers ELSE t.leaves)
                      /\ t.depth <= CeilLog2(N))

\* C21 witness: [0, MaxPar) was split down to MaxPar one-element leaves
C21_Witness ==
    /\ OnlySplits
    /\ AllLeaves
    /\ result.op = "split"
    /\ lt.count = MaxPar
    /\ Cardinality(producers) = MaxPar

\* C22: parse_with gives no view whenever the product count *
\* element_size, taken over the integers, exceeds the source's length,
\* also when the product does not fit the word.
\* Fails: the code multiplies in usize; where the product wraps to a value
\* within the source's length parse_with returns Ok with the count asked.
C22_NoViewBeyondSource ==
    (/\ result.op \in ParseOps
     /\ result.args[2] * size_with(result.args[3]) > Len(result.args[1]))
    => /\ result.out.tag # "Ok"
       /\ ~HasView

\* what a constructor's outcomes decide: a view of which count over which
\* contents, which error, or a panic
Verdicts(outcomes) ==
    { IF r.tag = "Ok"
      THEN [tag |-> "Ok", count |-> r.val.count, contents |-> r.val.contents]
      ELSE r
      : r \in outcomes }

\* C23: the check of lib.rs, total_size > len && total_size != 0, and the
\* check of lazy_transducer.rs, total_size > len, accept and reject the
\* same (bytes, count, element size): on the arguments of every call the
\* two constructors decide alike, with an element size of 0 both accept
\* every count, and what the one with the extra conjunct accepts the
\* plain one accepts.
C23_ChecksAgree ==
    result.op \in ParseOps =>
        LET bytes == result.args[1]
            count == result.args[2]
            ctx == result.args[3]
        IN  /\ Verdicts(parse_with(bytes, count, ctx))
                 = Verdicts(ScrollTransducer_parse_with(bytes, count, ctx))
            /\ Verdicts({result.out}) \subseteq Verdicts(parse_with(bytes, count, ctx))
            /\ Verdicts({result.out})
                  \subseteq Verdicts(ScrollTransducer_parse_with(bytes, count, ctx))
            /\ size_with(ctx) = 0 =>
                  /\ result.out.tag = "Ok"
                  /\ \A r \in parse_with(bytes, count, ctx)
                            \cup ScrollTransducer_parse_with(bytes, count, ctx) :
                        r.tag = "Ok"

\* C23 witness: lib.rs's parse_with accepted a count that is not 0 with an
\* element size of 0 over the empty buffer
C23_Witness ==
    /\ result.op = "parse_with"
    /\ size_with(result.args[3]) = 0
    /\ result.args[2] = 3
    /\ result.args[1] = <<>>
    /\ result.out.tag = "Ok"

\* C24: at every point of a sequential iteration IntoIter's len() is the
\* number of elements the calls of next() still to come will yield: count
\* less the number of elements yielded so far.
\* Fails: len() returns the view's count and takes no account of the
\* cursor, so it is right only before the first element is yielded.
C24_LenIsRemaining ==
    (it # NoIter /\ it.tag = "IntoIter") =>
        /\ IntoIter_len(it) = lt.count - Len(seqOut)
        /\ \A s \in collect(it, <<>>) :
              s.end = None => IntoIter_len(it) = Len(s.out)

\* C25: Builder::parse_with(ctx) fails with a BuilderError when the
\* builder has no input, with or without a transducer; otherwise its
\* outcome is an outcome of the fixed-width parse_with on the builder's
\* input (the last one set), its count (the last one set, 0 when none was)
\* and ctx, whatever transducer the builder holds.
C25_BuilderParseWith ==
    result.op = "Builder::parse_with" =>
        LET b == result.args[1]
            ctx == result.args[2]
        IN  /\ ~b.counted => b.count = 0
            /\ IF b.input = None
               THEN /\ result.out.tag = "Err"
                    /\ result.out.err.kind = "BuilderError"
                    /\ lt = NoView
               ELSE /\ result.out \in parse_with(b.input.val, b.count, ctx)
                    /\ Verdicts({result.out}) \subseteq
                          Verdicts(ScrollTransducer_parse_with(b.input.val, b.count, ctx))
                    /\ result.out.tag \in {"Ok", "Err", "Panic"}
                    /\ result.out.tag = "Err" =>
                          result.out.err = ElementOverflow(b.count, size_with(ctx),
                                                           Len(b.input.val))
                    /\ result.out.tag = "Ok" => lt = result.out.val
                    /\ result.out.tag # "Ok" => lt = NoView
            /\ \A f \in BuilderTransducers :
                  /\ Builder_parse_with(Builder_transducer(b, f), ctx)
                        = Builder_parse_with(b, ctx)
                  /\ Builder_parse_with([b EXCEPT !.transducer = None], ctx)
                        = Builder_parse_with(b, ctx)

\* C25 witness: a builder with the scenario bytes, a count of 4 and no
\* transducer gives the view of four records
C25_Witness ==
    /\ result.op = "Builder::parse_with"
    /\ result.args[1].input = Some(Scenario)
    /\ result.args[1].count = 4
    /\ result.args[1].transducer = None
    /\ size_with(result.args[2]) = 4
    /\ result.out.tag = "Ok"
    /\ lt.count = 4

====
